---- MODULE Spec2Model ----
(***************************************************************************)
(* A model of jsproxy: the mapping store (DatabaseManager), the target     *)
(* builder and the request handler (ProxyServer), the certificate manager  *)
(* (CertificateManager) and the cluster master (index.js).                 *)
(*                                                                         *)
(* Strings are sequences of one-character strings, so that prefix tests,   *)
(* String.replace, the slash-collapsing regex and SQL LIKE are computed    *)
(* character by character, as the code computes them.                      *)
(***************************************************************************)
EXTENDS Naturals, Integers, Sequences, FiniteSets, TLC

VARIABLES
  lk,       \* one DatabaseManager.getMapping call: store rows, arguments, result
  rw,       \* one ProxyServer.buildTargetUrl call: mapping, requestUrl, result
  file,     \* the file at DatabaseManager.dbPath (./data/current.db)
  conn,     \* the state of the handle DatabaseManager.db
  leaked,   \* handles that were opened, replaced in this.db and never closed
  hr,       \* the running DatabaseManager.hotReplaceDatabase call
  swaps,    \* hotReplaceDatabase calls started so far
  cur,      \* the request ProxyServer.handleRequest is working on
  resp,     \* what handleRequest did for it
  challenges, \* CertificateManager.challenges and the challenge directory
  peer,     \* another worker on the same certs directory: its challenges map
  cm,       \* the CertificateManager of the worker: ensureCertificate calls,
            \* certificate cache, rate limiter, processing set, clock
  acct,     \* the workers running initializeAcmeClient on one certs directory
  cluster   \* the cluster master: its workers and the workerIds map

vars == <<lk, rw, file, conn, leaked, hr, swaps, cur, resp, challenges, peer,
          cm, acct, cluster>>
pureVars == <<lk, rw>>
storeVars == <<file, conn, leaked, hr, swaps>>
reqVars == <<cur, resp>>
certVars == <<challenges, peer, cm, acct>>
clusterVars == <<cluster>>

\* the worker process runs: process.on('uncaughtException', ...), which logs
\* and calls process.exit(1), has not run
Alive == ~resp.uncaught

-----------------------------------------------------------------------------
(* Bounds *)

\* longest front_uri / back_uri of a mapping handed to buildTargetUrl
MaxUriLen == 2
\* longest request path handed to buildTargetUrl
MaxPathLen == 4
\* longest front_uri of a row in the store of a getMapping call
MaxFrontLen == 2
\* longest request path of a getMapping call, after its leading '/'
MaxLookupLen == 2
\* most rows in the store of a getMapping call
MaxRows == 2
\* most hotReplaceDatabase calls in one run
MaxSwaps == 2

-----------------------------------------------------------------------------
(* Strings *)

\* every subset of S of at most n elements
RECURSIVE SetsUpTo(_, _)
SetsUpTo(S, n) ==
  IF n = 0 THEN {{}}
  ELSE LET smaller == SetsUpTo(S, n - 1)
       IN smaller \cup {p \cup {x} : p \in smaller, x \in S}

\* every string over alpha of length at most n
StringsUpTo(alpha, n) == {<<>>} \cup UNION {[1..k -> alpha] : k \in 1..n}

\* String.prototype.startsWith
StartsWith(s, p) == Len(p) <= Len(s) /\ SubSeq(s, 1, Len(p)) = p

\* String.prototype.substring(n)
Substring(s, n) == SubSeq(s, n + 1, Len(s))

\* String.prototype.indexOf: the 0-based place of the first occurrence, or -1
IndexOf(s, p) ==
  LET hits == {i \in 0..(Len(s) - Len(p)) : SubSeq(s, i + 1, i + Len(p)) = p}
  IN IF Len(p) > Len(s) \/ hits = {} THEN -1
     ELSE CHOOSE i \in hits : \A j \in hits : i <= j

\* Whether s contains p
Includes(s, p) == IndexOf(s, p) # -1

\* GetSubstitution of String.prototype.replace for a string pattern (no
\* captures): "$$" is "$" and "$&" is the matched text; any other "$"
\* stands for itself. (The two patterns for the text before and after the
\* match begin with "$" followed by a quote character; no alphabet of this
\* model holds a quote character.)
RECURSIVE GetSubstitution(_, _)
GetSubstitution(matched, replacement) ==
  IF replacement = <<>> THEN <<>>
  ELSE IF replacement[1] = "$" /\ Len(replacement) >= 2
            /\ replacement[2] \in {"$", "&"}
       THEN (IF replacement[2] = "$" THEN <<"$">> ELSE matched)
            \o GetSubstitution(matched, SubSeq(replacement, 3, Len(replacement)))
       ELSE <<replacement[1]>> \o GetSubstitution(matched, Tail(replacement))

\* String.prototype.replace(pattern, replacement) with a string pattern: the
\* first occurrence only, the replacement expanded by GetSubstitution
Replace(s, pattern, replacement) ==
  LET pos == IndexOf(s, pattern)
  IN IF pos = -1 THEN s
     ELSE SubSeq(s, 1, pos)
          \o GetSubstitution(pattern, replacement)
          \o SubSeq(s, pos + Len(pattern) + 1, Len(s))

\* targetPath.replace(/\/+/g, "/"): every run of "/" becomes one "/"
RECURSIVE CollapseSlashes(_)
CollapseSlashes(s) ==
  IF s = <<>> THEN <<>>
  ELSE IF Len(s) >= 2 /\ s[1] = "/" /\ s[2] = "/" THEN CollapseSlashes(Tail(s))
  ELSE <<s[1]>> \o CollapseSlashes(Tail(s))

\* ASCII case folding, as SQLite's LIKE applies it
ToLower(c) ==
  CASE c = "A" -> "a"
    [] c = "B" -> "b"
    [] OTHER -> c

\* SQLite's  str LIKE pat  (no ESCAPE): '%' matches any run of characters,
\* '_' any one character, every other character itself, ASCII letters
\* without regard to case
RECURSIVE Like(_, _)
Like(str, pat) ==
  IF pat = <<>> THEN str = <<>>
  ELSE IF pat[1] = "%"
       THEN \E k \in 0..Len(str) : Like(SubSeq(str, k + 1, Len(str)), Tail(pat))
  ELSE IF pat[1] = "_"
       THEN str # <<>> /\ Like(Tail(str), Tail(pat))
  ELSE str # <<>> /\ ToLower(str[1]) = ToLower(pat[1]) /\ Like(Tail(str), Tail(pat))

-----------------------------------------------------------------------------
(* DatabaseManager.getMapping *)

\* resolve(row || null): no row
Null == [id |-> "null", domain |-> <<>>, front_uri |-> <<>>,
         back_port |-> "0", back_uri |-> <<>>]

\* WHERE domain = ? AND (? LIKE '/' || front_uri || '%' OR front_uri = '')
MatchingRows(rows, domain, requestUrl) ==
  {r \in rows : r.domain = domain
                /\ (Like(requestUrl, <<"/">> \o r.front_uri \o <<"%">>)
                    \/ r.front_uri = <<>>)}

\* ORDER BY LENGTH(front_uri) DESC LIMIT 1: the rows the query may return
\* (SQL leaves the order among rows of equal length open), or Null
getMapping(rows, domain, requestUrl) ==
  LET m == MatchingRows(rows, domain, requestUrl)
  IN IF m = {} THEN {Null}
     ELSE {r \in m : \A q \in m : Len(q.front_uri) <= Len(r.front_uri)}

-----------------------------------------------------------------------------
(* ProxyServer.buildTargetUrl *)

\* mapping.front_uri.startsWith('/') ? mapping.front_uri : `/${mapping.front_uri}`
WithLeadingSlash(uri) == IF StartsWith(uri, <<"/">>) THEN uri ELSE <<"/">> \o uri

\* the path before the clean-up: the four cases of front_uri and back_uri
RewritePath(mapping, requestUrl) ==
  LET frontUri == WithLeadingSlash(mapping.front_uri)
      backUri == WithLeadingSlash(mapping.back_uri)
  IN IF mapping.front_uri # <<>>
     THEN IF mapping.back_uri # <<>>
          THEN IF StartsWith(requestUrl, frontUri)
               THEN Replace(requestUrl, frontUri, backUri)
               ELSE IF StartsWith(requestUrl, Substring(frontUri, 1))
               THEN Replace(requestUrl, Substring(frontUri, 1), backUri)
               ELSE requestUrl
          ELSE IF StartsWith(requestUrl, frontUri)
               THEN (IF Substring(requestUrl, Len(frontUri)) = <<>>
                     THEN <<"/">>
                     ELSE Substring(requestUrl, Len(frontUri)))
               ELSE requestUrl
     ELSE IF mapping.back_uri # <<>>
          THEN backUri \o requestUrl
          ELSE requestUrl

\* CleanPath with targetPath.replace('//', '/') for the regex: only the
\* first pair of slashes is replaced
CleanPath_ReplaceOnce(targetPath) ==
  LET collapsed == Replace(targetPath, <<"/", "/">>, <<"/">>)
  IN IF StartsWith(collapsed, <<"/">>) THEN collapsed ELSE <<"/">> \o collapsed

\* the clean-up: collapse the slashes, make the path begin with '/'
CleanPath(targetPath) ==
  LET collapsed == CollapseSlashes(targetPath)
  IN IF StartsWith(collapsed, <<"/">>) THEN collapsed ELSE <<"/">> \o collapsed

\* `http://localhost:${mapping.back_port}`: the scheme and host as one
\* element, the port as one element
Origin(mapping) == <<"http://localhost:", mapping.back_port>>

\* `http://localhost:${mapping.back_port}${targetPath}`
buildTargetUrl(mapping, requestUrl) ==
  Origin(mapping) \o CleanPath(RewritePath(mapping, requestUrl))

\* the path of a target URL: what follows the origin
TargetPath(url) == SubSeq(url, 3, Len(url))

-----------------------------------------------------------------------------
(* The calls of buildTargetUrl that are checked: every mapping and every   *)
(* request path over small alphabets                                       *)

FrontAlphabet == {"/", "a"}
BackAlphabet == {"/", "b", "$"}
PathAlphabet == {"/", "a", "?"}

RewriteMappings ==
  {[id |-> "m", domain |-> <<"a">>, front_uri |-> f, back_port |-> "3001",
    back_uri |-> b] :
     f \in StringsUpTo(FrontAlphabet, MaxUriLen),
     b \in StringsUpTo(BackAlphabet, MaxUriLen)}

RewriteUrls == StringsUpTo(PathAlphabet, MaxPathLen)

NoCall == [mapping |-> Null, url |-> <<>>, target |-> <<>>, done |-> FALSE]

\* a call of buildTargetUrl(mapping, requestUrl)
CallBuildTargetUrl ==
  /\ ~rw.done
  /\ rw' = [rw EXCEPT !.target = buildTargetUrl(rw.mapping, rw.url),
                      !.done = TRUE]
  /\ UNCHANGED <<lk, storeVars, reqVars, certVars, clusterVars>>

-----------------------------------------------------------------------------
(* The calls of getMapping that are checked: every store of at most        *)
(* MaxRows rows, every domain and request path over small alphabets        *)

LookupDomains == {<<"a">>, <<"b">>}
LookupFrontAlphabet == {"a", "A", "_"}
LookupPathAlphabet == {"/", "a", "b"}

LookupRows ==
  {[id |-> "r", domain |-> d, front_uri |-> f, back_port |-> "3001",
    back_uri |-> <<>>] :
     d \in LookupDomains, f \in StringsUpTo(LookupFrontAlphabet, MaxFrontLen)}

LookupStores == SetsUpTo(LookupRows, MaxRows)

\* request paths begin with '/'
LookupUrls == {<<"/">> \o u : u \in StringsUpTo(LookupPathAlphabet, MaxLookupLen)}

NoLookup == [rows |-> {}, domain |-> <<>>, url |-> <<>>, result |-> Null,
             done |-> FALSE]

\* a call of getMapping(domain, requestUrl): the query returns one of the
\* rows SQL allows
CallGetMapping ==
  /\ ~lk.done
  /\ \E r \in getMapping(lk.rows, lk.domain, lk.url) :
       lk' = [lk EXCEPT !.result = r, !.done = TRUE]
  /\ UNCHANGED <<rw, storeVars, reqVars, certVars, clusterVars>>

-----------------------------------------------------------------------------
(* The mapping store of one worker: the file at dbPath and the handle      *)
(* this.db                                                                 *)

\* most rows of a store content or of a hot-swap candidate
MaxStoreRows == 2

R1 == [id |-> "r1", domain |-> <<"a">>, front_uri |-> <<>>,
       back_port |-> "3001", back_uri |-> <<>>]
R2 == [id |-> "r2", domain |-> <<"a">>, front_uri |-> <<"a">>,
       back_port |-> "3002", back_uri |-> <<"b">>]
R3 == [id |-> "r3", domain |-> <<"b">>, front_uri |-> <<>>,
       back_port |-> "3003", back_uri |-> <<>>]
\* a row whose front_uri is the LIKE wildcard
R4 == [id |-> "r4", domain |-> <<"a">>, front_uri |-> <<"%">>,
       back_port |-> "3004", back_uri |-> <<>>]
StoreRows == {R1, R2, R3}
StoreContents == SetsUpTo(StoreRows, MaxStoreRows)

\* a file that is a database with a mappings table holding rows
DbFile(rows) == [kind |-> "db", rows |-> rows]
\* no file at the path
Missing == [kind |-> "missing", rows |-> {}]
\* a file without a mappings table
NoTable == [kind |-> "notable", rows |-> {}]
\* what a failed copy can leave at the destination: the file removed or
\* partly written; opened again it has no readable mappings table
Damaged == [kind |-> "damaged", rows |-> {}]

\* the files hotReplaceDatabase is called with
Candidates == {DbFile(s) : s \in StoreContents} \cup {Missing, NoTable}

Idle == [pc |-> "idle", cand |-> Missing, pre |-> Missing]

\* reject(err): the query failed
Rejected == [id |-> "error", domain |-> <<>>, front_uri |-> <<>>,
             back_port |-> "0", back_uri |-> <<>>]

\* this.db.get(sql, [domain, requestUrl], ...) on the handle as it is now: a
\* closed handle and a file without a mappings table give an error
Query(domain, requestUrl) ==
  IF conn = "open" /\ file.kind = "db"
  THEN getMapping(file.rows, domain, requestUrl)
  ELSE {Rejected}

\* initialize(): connect, enable WAL, create the mappings table if missing
Initialize ==
  /\ Alive
  /\ conn = "none"
  /\ conn' = "open"
  /\ UNCHANGED <<pureVars, file, leaked, hr, swaps, reqVars, certVars, clusterVars>>

\* connectToDatabase(): this.db = new sqlite3.Database(this.dbPath, ...). The
\* handle this.db held is dropped, not closed. ok: the open succeeded.
connectToDatabase(ok) ==
  /\ conn' = (IF ok THEN "open" ELSE "closed")
  /\ leaked' = (IF conn = "open" THEN leaked + 1 ELSE leaked)

\* close(): this.db.close(...); resolves whether or not the close succeeded
close == conn' = "closed"

\* hotReplaceDatabase(newDbPath) is called
HotReplaceStart(cand) ==
  /\ Alive
  /\ hr.pc = "idle"
  /\ conn # "none"
  /\ swaps < MaxSwaps
  /\ hr' = [pc |-> "access", cand |-> cand, pre |-> file]
  /\ swaps' = swaps + 1
  /\ UNCHANGED <<pureVars, file, conn, leaked, reqVars, certVars, clusterVars>>

\* await fs.access(newDbPath)
HotReplaceAccess ==
  /\ Alive
  /\ hr.pc = "access"
  /\ hr' = [hr EXCEPT !.pc = IF hr.cand.kind = "missing" THEN "catch" ELSE "verify"]
  /\ UNCHANGED <<pureVars, file, conn, leaked, swaps, reqVars, certVars, clusterVars>>

\* tempDb.get('SELECT name FROM sqlite_master ...'): rejects when the
\* candidate holds no mappings table
HotReplaceVerify ==
  /\ Alive
  /\ hr.pc = "verify"
  /\ hr' = [hr EXCEPT !.pc = IF hr.cand.kind = "db" THEN "close" ELSE "catch"]
  /\ UNCHANGED <<pureVars, file, conn, leaked, swaps, reqVars, certVars, clusterVars>>

\* the close step that also ends the exchange in progress
HotReplaceClose_EndsExchange ==
  /\ Alive
  /\ hr.pc = "close"
  /\ close
  /\ hr' = [hr EXCEPT !.pc = "copy"]
  /\ resp' = IF resp.upstream = "responded"
             THEN [resp EXCEPT !.upstream = "aborted"] ELSE resp
  /\ UNCHANGED <<pureVars, file, leaked, swaps, cur, certVars, clusterVars>>

\* await this.close()
HotReplaceClose ==
  /\ Alive
  /\ hr.pc = "close"
  /\ close
  /\ hr' = [hr EXCEPT !.pc = "copy"]
  /\ UNCHANGED <<pureVars, file, leaked, swaps, reqVars, certVars, clusterVars>>

\* copyFile that leaves the destination as it was
copyFile_NoCopy(ok, written) == file

\* what fs.copyFile(newDbPath, this.dbPath) leaves at dbPath: on success
\* the candidate; on failure the old file when the copy failed before the
\* destination was opened for writing, and a removed or partly written
\* file after that
copyFile(ok, written) ==
  IF ok THEN hr.cand ELSE IF written THEN Damaged ELSE file

\* await fs.copyFile(newDbPath, this.dbPath)
HotReplaceCopy ==
  /\ Alive
  /\ hr.pc = "copy"
  /\ \E ok \in BOOLEAN, written \in BOOLEAN :
       /\ file' = copyFile(ok, written)
       /\ hr' = [hr EXCEPT !.pc = IF ok THEN "connect" ELSE "catch"]
  /\ UNCHANGED <<pureVars, conn, leaked, swaps, reqVars, certVars, clusterVars>>

\* await this.connectToDatabase() after the copy
HotReplaceConnect ==
  /\ Alive
  /\ hr.pc = "connect"
  /\ \E ok \in BOOLEAN :
       /\ connectToDatabase(ok)
       /\ hr' = [hr EXCEPT !.pc = IF ok THEN "wal" ELSE "catch"]
  /\ UNCHANGED <<pureVars, file, swaps, reqVars, certVars, clusterVars>>

\* await this.enableWALMode() after the copy
HotReplaceWal ==
  /\ Alive
  /\ hr.pc = "wal"
  /\ hr' = [hr EXCEPT !.pc = IF file.kind = "db" THEN "done" ELSE "catch"]
  /\ UNCHANGED <<pureVars, file, conn, leaked, swaps, reqVars, certVars, clusterVars>>

\* catch (error): connectToDatabase() and enableWALMode() on the original
\* path, their failure logged; then throw error
HotReplaceCatch ==
  /\ Alive
  /\ hr.pc = "catch"
  /\ \E ok \in BOOLEAN : connectToDatabase(ok)
  /\ hr' = [hr EXCEPT !.pc = "failed"]
  /\ UNCHANGED <<pureVars, file, swaps, reqVars, certVars, clusterVars>>

\* the caller has the result (done) or the error (failed)
HotReplaceReturn ==
  /\ Alive
  /\ hr.pc \in {"done", "failed"}
  /\ hr' = Idle
  /\ UNCHANGED <<pureVars, file, conn, leaked, swaps, reqVars, certVars, clusterVars>>

-----------------------------------------------------------------------------
(* ProxyServer.handleRequest *)

HealthUrl == <<"/", "h", "e", "a", "l", "t", "h">>
AcmePrefix ==
  <<"/", ".", "w", "e", "l", "l", "-", "k", "n", "o", "w", "n", "/", "a", "c", "m", "e", "-", "c", "h", "a", "l", "l", "e", "n", "g", "e", "/">>

\* the Host header: absent, or a name with or without a port
NoHost == [present |-> FALSE, value |-> <<>>]
Host(h) == [present |-> TRUE, value |-> h]

\* requests that end before routing: the health check and an ACME challenge
ShortCircuitUrls == {HealthUrl, AcmePrefix \o <<"t">>}
\* requests that are routed: for the mappings' domains with and without a
\* port and in capital letters, for an unmapped domain, without Host; over
\* HTTP and over TLS
RoutedUrls == {<<"/", "a", "/", "b">>, <<"/", "b", "/", "/", "a">>}
RoutedHosts ==
  {NoHost, Host(<<"a">>), Host(<<"A">>), Host(<<"b", ":", "8">>), Host(<<"c">>)}

\* upgrade marks the 'upgrade' event of the server: the request comes with the
\* raw client socket and goes to handleWebSocket
Requests ==
  [url : ShortCircuitUrls, host : {NoHost, Host(<<"a">>)}, https : {FALSE},
   upgrade : {FALSE}]
  \cup [url : RoutedUrls, host : RoutedHosts, https : BOOLEAN, upgrade : {FALSE}]
  \cup [url : {<<"/", "a", "/", "b">>},
        host : {NoHost, Host(<<"a">>), Host(<<"c">>)}, https : BOOLEAN,
        upgrade : {TRUE}]

NoRequest == [url |-> <<>>, host |-> NoHost, https |-> FALSE, upgrade |-> FALSE]

\* host.split(':')[0]
SplitHost(host) ==
  IF Includes(host, <<":">>) THEN SubSeq(host, 1, IndexOf(host, <<":">>)) ELSE host

\* domain.split('.')
RECURSIVE SplitLabels(_)
SplitLabels(s) ==
  IF Includes(s, <<".">>)
  THEN <<SubSeq(s, 1, IndexOf(s, <<".">>))>>
       \o SplitLabels(Substring(s, IndexOf(s, <<".">>) + 1))
  ELSE <<s>>

\* parts.join('.')
RECURSIVE JoinLabels(_)
JoinLabels(ls) ==
  IF Len(ls) = 0 THEN <<>>
  ELSE IF Len(ls) = 1 THEN ls[1]
  ELSE ls[1] \o <<".">> \o JoinLabels(Tail(ls))

\* the second-level labels of the compound TLD pattern
CompoundLabels ==
  {<<"c", "o">>, <<"a", "c">>, <<"g", "o", "v">>, <<"o", "r", "g">>,
   <<"n", "e", "t">>, <<"e", "d", "u">>, <<"m", "i", "l">>}

\* getMainDomain(domain): the name itself when it has at most two labels;
\* else the label before the TLD and the TLD, a TLD being two labels when
\* the first is one of the compound pattern, one label otherwise
getMainDomain(domain) ==
  LET parts == SplitLabels(domain)
      n == Len(parts)
  IN IF n <= 2 THEN domain
     ELSE IF parts[n - 1] \in CompoundLabels
     THEN JoinLabels(SubSeq(parts, n - 2, n))
     ELSE JoinLabels(SubSeq(parts, n - 1, n))

\* isSubdomain(domain)
isSubdomain(domain) ==
  /\ domain # getMainDomain(domain)
  /\ domain # <<"w", "w", "w", ".">> \o getMainDomain(domain)

\* ensureCertificate(domain, true) can reject: for a subdomain without a
\* wildcard certificate it awaits this.db.getMapping(mainDomain, '/')
\* outside every try block
EnsureCanReject(domain) ==
  /\ isSubdomain(domain)
  /\ Rejected \in Query(getMainDomain(domain), <<"/">>)

\* req.url.split('/').pop(): what follows the last '/'
RECURSIVE LastSegment(_)
LastSegment(url) ==
  IF Includes(url, <<"/">>)
  THEN LastSegment(Substring(url, IndexOf(url, <<"/">>) + 1))
  ELSE url

\* the challenge tokens of the ACME orders in progress
Tokens == {<<"t">>, <<"u">>}

\* the keyAuthorization published for a token
KeyAuth(token) == IF token = <<"t">> THEN "keyAuthorization-t" ELSE "keyAuthorization-u"

\* no entry in a challenges map, no file in the challenge directory
NoEntry == "none"

\* getChallenge without the look into the challenge directory
getChallenge_MemoryOnly(mem, token) ==
  IF token \in Tokens /\ mem[token] # NoEntry THEN mem[token]
  ELSE NoEntry

\* certManager.getChallenge(token) in a worker whose challenges map is mem:
\* the in-memory map first, then the file in the challenge directory, read
\* as it is at the moment; NoEntry is null
getChallenge(mem, token) ==
  IF token \in Tokens /\ mem[token] # NoEntry THEN mem[token]
  ELSE IF token \in Tokens THEN challenges.disk[token]
  ELSE NoEntry

\* nothing done yet. A response records the head and body written, the
\* getMapping calls made and what the last one returned, whether
\* ensureCertificate was called, and the call of proxy.web or proxy.ws;
\* heads counts the response heads written, upstream is what became of the
\* proxied exchange ("pending", "responded", "refused": failed before any
\* response header, "aborted": failed after the head), destroyed that the
\* client socket was destroyed, uncaught that an exception left a callback,
\* awaiting that the handler stands at await ensureCertificate; swaps0 and
\* quiet note, when the upstream answers, the hotReplaceDatabase calls made
\* so far and that none was running
NoResponse ==
  [status |-> 0, ctype |-> "", body |-> "", lookups |-> 0, mapping |-> Null,
   ensured |-> FALSE, proxied |-> FALSE, target |-> <<>>, url |-> <<>>,
   heads |-> 0, upstream |-> "none", destroyed |-> FALSE, uncaught |-> FALSE,
   awaiting |-> FALSE, swaps0 |-> 0, quiet |-> FALSE]

\* res.writeHead(status, { 'Content-Type': 'text/plain' }); res.end(body)
Respond(status, body, lookups) ==
  [status |-> status, ctype |-> "text/plain", body |-> body,
   lookups |-> lookups, mapping |-> Null, ensured |-> FALSE,
   proxied |-> FALSE, target |-> <<>>, url |-> <<>>,
   heads |-> 1, upstream |-> "none", destroyed |-> FALSE, uncaught |-> FALSE,
   awaiting |-> FALSE, swaps0 |-> 0, quiet |-> FALSE]

\* this.proxy.web(req, res, { target: target, ... }) (proxy.ws for an
\* upgrade): the request, its url untouched, is handed to the proxy with the
\* target; on a TLS connection ensureCertificate(domain, true) has returned
ProxyWeb(mapping, target, req) ==
  [status |-> 0, ctype |-> "", body |-> "", lookups |-> 1, mapping |-> mapping,
   ensured |-> req.https, proxied |-> TRUE, target |-> target, url |-> req.url,
   heads |-> 0, upstream |-> "pending", destroyed |-> FALSE, uncaught |-> FALSE,
   awaiting |-> FALSE, swaps0 |-> 0, quiet |-> FALSE]

\* the handler with a mapping: on a plain connection it calls the proxy; on
\* a TLS connection it first stands at
\* await this.certManager.ensureCertificate(domain, true), the target it
\* will hand to the proxy being settled by mapping and url
Forward(mapping, target, req) ==
  IF req.https
  THEN [ProxyWeb(mapping, target, req) EXCEPT
          !.proxied = FALSE, !.upstream = "none", !.awaiting = TRUE]
  ELSE ProxyWeb(mapping, target, req)

\* the path the upstream is asked for: the path of the target, and the
\* request's own url when the target is a bare origin
UpstreamPath(r) == IF TargetPath(r.target) = <<>> THEN r.url ELSE TargetPath(r.target)

\* ProxyTarget without the direct branch: every mapping goes through
\* buildTargetUrl
ProxyTarget_AlwaysBuild(mapping, url) == buildTargetUrl(mapping, url)

\* the target handed to the proxy for a mapping: the bare origin when the
\* mapping has neither front_uri nor back_uri, buildTargetUrl otherwise
ProxyTarget(mapping, url) ==
  IF mapping.front_uri = <<>> /\ mapping.back_uri = <<>>
  THEN Origin(mapping)
  ELSE buildTargetUrl(mapping, url)

\* AfterLookup with ensureCertificate called before the mapping is tested
AfterLookup_EnsureFirst(req, mapping) ==
  IF mapping = Rejected
  THEN [Respond(500, "Internal Server Error", 1) EXCEPT !.mapping = Rejected]
  ELSE IF mapping = Null
  THEN [Respond(404, "Not Found", 1) EXCEPT !.ensured = req.https]
  ELSE Forward(mapping, ProxyTarget(mapping, req.url), req)

\* handleRequest after the lookup returned mapping
AfterLookup(req, mapping) ==
  IF mapping = Rejected
  THEN [Respond(500, "Internal Server Error", 1) EXCEPT !.mapping = Rejected]
  ELSE IF mapping = Null THEN Respond(404, "Not Found", 1)
  ELSE Forward(mapping, ProxyTarget(mapping, req.url), req)

\* handleRequest with the Host check moved before the health check
handleRequest_HostFirst(req) ==
  IF ~req.host.present \/ req.host.value = <<>>
  THEN {Respond(400, "Bad Request: Missing Host header", 0)}
  ELSE IF req.url = HealthUrl THEN {Respond(200, "OK", 0)}
  ELSE IF StartsWith(req.url, AcmePrefix)
  THEN {IF getChallenge(challenges.mem, LastSegment(req.url)) \notin {NoEntry, ""}
        THEN Respond(200, getChallenge(challenges.mem, LastSegment(req.url)), 0)
        ELSE Respond(404, "Challenge not found", 0)}
  ELSE {AfterLookup(req, m) : m \in Query(SplitHost(req.host.value), req.url)}

\* handleRequest with the challenge test moved behind the Host check
handleRequest_ChallengeAfterHost(req) ==
  IF req.url = HealthUrl THEN {Respond(200, "OK", 0)}
  ELSE IF ~req.host.present \/ req.host.value = <<>>
  THEN {Respond(400, "Bad Request: Missing Host header", 0)}
  ELSE IF StartsWith(req.url, AcmePrefix)
  THEN {IF getChallenge(challenges.mem, LastSegment(req.url)) \notin {NoEntry, ""}
        THEN Respond(200, getChallenge(challenges.mem, LastSegment(req.url)), 0)
        ELSE Respond(404, "Challenge not found", 0)}
  ELSE {AfterLookup(req, m) : m \in Query(SplitHost(req.host.value), req.url)}

\* handleRequest(req, res, isHttps): what it may do for req in this state
handleRequest(req) ==
  IF req.url = HealthUrl THEN {Respond(200, "OK", 0)}
  ELSE IF StartsWith(req.url, AcmePrefix)
  THEN {IF getChallenge(challenges.mem, LastSegment(req.url)) \notin {NoEntry, ""}
        THEN Respond(200, getChallenge(challenges.mem, LastSegment(req.url)), 0)
        ELSE Respond(404, "Challenge not found", 0)}
  ELSE IF ~req.host.present \/ req.host.value = <<>>
  THEN {Respond(400, "Bad Request: Missing Host header", 0)}
  ELSE {AfterLookup(req, m) : m \in Query(SplitHost(req.host.value), req.url)}

\* socket.destroy(); return
Destroy(lookups, mapping) ==
  [NoResponse EXCEPT !.lookups = lookups, !.mapping = mapping,
                     !.destroyed = TRUE]

\* handleWebSocket with ensureCertificate called before the mapping is
\* tested
handleWebSocket_EnsureFirst(req) ==
  IF ~req.host.present \/ req.host.value = <<>>
  THEN {Destroy(0, Null)}
  ELSE {IF m = Rejected THEN Destroy(1, m)
        ELSE IF m = Null THEN [Destroy(1, m) EXCEPT !.ensured = req.https]
        ELSE Forward(m, ProxyTarget(m, req.url), req) :
          m \in Query(SplitHost(req.host.value), req.url)}

\* handleWebSocket that hands the proxy the bare origin for every mapping
handleWebSocket_BareTarget(req) ==
  IF ~req.host.present \/ req.host.value = <<>>
  THEN {Destroy(0, Null)}
  ELSE {IF m = Rejected \/ m = Null THEN Destroy(1, m)
        ELSE Forward(m, Origin(m), req) :
          m \in Query(SplitHost(req.host.value), req.url)}

\* handleWebSocket(req, socket, head, isHttps): what it may do for req in
\* this state. No health or challenge test; a missing Host, a lookup
\* without result and a rejected lookup end in socket.destroy(); with a
\* mapping the target is the bare origin when front_uri and back_uri are
\* both empty and buildTargetUrl(mapping, req.url) otherwise
handleWebSocket(req) ==
  IF ~req.host.present \/ req.host.value = <<>>
  THEN {Destroy(0, Null)}
  ELSE {IF m = Rejected \/ m = Null THEN Destroy(1, m)
        ELSE Forward(m, IF m.front_uri = <<>> /\ m.back_uri = <<>>
                        THEN Origin(m)
                        ELSE buildTargetUrl(m, req.url), req) :
          m \in Query(SplitHost(req.host.value), req.url)}

\* the proxy 'error' handler that writes 502 whatever was sent before
ProxyError_NoGuard(r, isSocket) ==
  IF isSocket THEN [r EXCEPT !.uncaught = TRUE]
  ELSE [r EXCEPT !.status = 502, !.ctype = "text/plain",
                 !.body = "Bad Gateway", !.heads = @ + 1]

\* this.proxy.on('error', (err, req, res) => ...) on the exchange r. For a
\* request res is the response: 502 unless the head was sent. For an upgrade
\* the proxy passes the client socket as res: it is truthy and has no
\* headersSent, so the test passes, and it has no writeHead, so the call
\* throws a TypeError out of the event callback
ProxyError(r, isSocket) ==
  IF isSocket THEN [r EXCEPT !.uncaught = TRUE]
  ELSE IF r.heads = 0
  THEN [r EXCEPT !.status = 502, !.ctype = "text/plain",
                 !.body = "Bad Gateway", !.heads = @ + 1]
  ELSE r

\* a request arrives at the listening worker
ReceiveRequest(req) ==
  /\ Alive
  /\ conn # "none"
  /\ cur = NoRequest
  /\ cur' = req
  /\ resp' = NoResponse
  /\ UNCHANGED <<pureVars, storeVars, certVars, clusterVars>>

\* the handler runs for the request
HandleRequest ==
  /\ Alive
  /\ cur # NoRequest
  /\ ~cur.upgrade
  /\ resp = NoResponse
  /\ resp' \in handleRequest(cur)
  /\ UNCHANGED <<pureVars, storeVars, cur, certVars, clusterVars>>

\* the upgrade handler runs for the request
HandleWebSocket ==
  /\ Alive
  /\ cur # NoRequest
  /\ cur.upgrade
  /\ resp = NoResponse
  /\ resp' \in handleWebSocket(cur)
  /\ UNCHANGED <<pureVars, storeVars, cur, certVars, clusterVars>>

\* await ensureCertificate(domain, true) ends in the handler of a TLS
\* connection: it returned and the proxy is called, or it rejected and the
\* catch block answers 500 (for an upgrade: destroys the socket).
\* ensureCertificate rejects when the store lookup of its subdomain branch
\* rejects
EnsureCertificateReturns ==
  /\ Alive
  /\ resp.awaiting
  /\ \E ok \in BOOLEAN :
       /\ ~ok => EnsureCanReject(SplitHost(cur.host.value))
       /\ resp' =
            IF ok
            THEN [resp EXCEPT !.awaiting = FALSE, !.proxied = TRUE,
                              !.upstream = "pending"]
            ELSE IF cur.upgrade
            THEN [resp EXCEPT !.awaiting = FALSE, !.destroyed = TRUE]
            ELSE [resp EXCEPT !.awaiting = FALSE, !.status = 500,
                              !.ctype = "text/plain",
                              !.body = "Internal Server Error",
                              !.heads = @ + 1]
  /\ UNCHANGED <<pureVars, storeVars, cur, certVars, clusterVars>>

\* the upstream answers: the proxy writes the upstream's head to the client
\* (for an upgrade it writes the handshake on the socket)
UpstreamResponds ==
  /\ Alive
  /\ resp.proxied
  /\ resp.upstream = "pending"
  /\ resp' = IF cur.upgrade
             THEN [resp EXCEPT !.upstream = "responded", !.swaps0 = swaps,
                               !.quiet = (hr.pc = "idle")]
             ELSE [resp EXCEPT !.upstream = "responded", !.status = 200,
                               !.body = "upstream", !.heads = @ + 1,
                               !.swaps0 = swaps, !.quiet = (hr.pc = "idle")]
  /\ UNCHANGED <<pureVars, storeVars, cur, certVars, clusterVars>>

\* the upstream connection fails (refused, reset, timed out), before or
\* after the upstream's head: the proxy emits 'error'
UpstreamFails ==
  /\ Alive
  /\ resp.proxied
  /\ resp.upstream \in {"pending", "responded"}
  /\ resp' = ProxyError([resp EXCEPT !.upstream =
                           IF resp.upstream = "pending" THEN "refused"
                           ELSE "aborted"],
                        cur.upgrade)
  /\ UNCHANGED <<pureVars, storeVars, cur, certVars, clusterVars>>

\* the exchange is over
FinishRequest ==
  /\ Alive
  /\ resp # NoResponse
  /\ resp.upstream # "pending"
  /\ ~resp.awaiting
  /\ cur' = NoRequest
  /\ resp' = NoResponse
  /\ UNCHANGED <<pureVars, storeVars, certVars, clusterVars>>

-----------------------------------------------------------------------------
(* CertificateManager.ensureCertificate on one worker. Time is counted in   *)
(* ticks of five minutes: calls in one tick are less than five minutes      *)
(* apart. The hosts are main domains, so the wildcard branch (isSubdomain)  *)
(* is not entered.                                                          *)

CertHosts == {<<"a">>}
\* a subdomain, for which ensureCertificate goes through its wildcard branch
SubHosts == {<<"s", ".", "a", ".", "b">>}
AllCertHosts == CertHosts \cup SubHosts
\* 5 * 60 * 1000 ms, in ticks
FiveMinutes == 1
\* the ceiling of certRequestCount
MaxAttempts == 5
\* the clock stops here: late enough for one attempt more than the ceiling
MaxNow == (MaxAttempts + 1) * FiveMinutes
\* ensureCertificate calls in progress at once
MaxCalls == 2
Slots == 1..MaxCalls

\* a certificate entry { cert, key }: self-signed or CA-signed, and the call
\* that made it (0: it was in the certs directory before the worker started)
NoCert == [kind |-> "none", by |-> 0]
\* generateSelfSignedCertificate(domain) in call k: a new key pair each time
SelfSigned(k) == [kind |-> "self", by |-> k]
\* what acmeClient.auto returns in call k
Issued(k) == [kind |-> "real", by |-> k]
OnDisk == [kind |-> "real", by |-> 0]
\* a valid wildcard certificate of the main domain, cached in wildcardCerts
\* or in the certs directory as wildcard.<main>.crt
Wildcard == [kind |-> "wildcard", by |-> 0]
\* a certificate file for which isCertificateValid is false: unparsable,
\* not yet valid or past its notAfter
Expired == [kind |-> "expired", by |-> 0]
\* a CA-signed certificate file before its notAfter and within 30 days of
\* it: isCertificateValid is false for it too
Renewable == [kind |-> "renewable", by |-> 0]

\* a call slot. how: the return statement the call took; at: the clock when
\* the body ran; n0: the attempts made for the host before it ran; seen: the
\* calls whose body had run before; joined: the calls whose issuance was in
\* flight when this call was made; sni: the call is made by the SNI callback
\* of a TLS handshake
IdleCall ==
  [pc |-> "idle", domain |-> <<>>, validated |-> FALSE, result |-> NoCert,
   how |-> "", at |-> 0, n0 |-> 0, seen |-> {}, joined |-> {}, sni |-> FALSE]

\* the manager after the constructor; the certs directory may hold a
\* CA-signed certificate of the host, valid or due for renewal
CertManagers ==
  {[now |-> FiveMinutes,
    last |-> [d \in AllCertHosts |-> 0],
    count |-> [d \in AllCertHosts |-> 0],
    processing |-> {},
    certificates |-> [d \in AllCertHosts |-> NoCert],
    disk |-> [d \in AllCertHosts |-> IF d \in CertHosts THEN c ELSE NoCert],
    wildcard |-> NoCert,
    attempts |-> [d \in AllCertHosts |-> 0],
    calls |-> [k \in Slots |-> IdleCall]] : c \in {NoCert, OnDisk, Expired}}

CertIdle == CHOOSE m \in CertManagers : m.disk = [d \in AllCertHosts |-> NoCert]

\* the manager after the constructor, for calls about the subdomain: its
\* certificate on disk or not, a wildcard certificate of its main domain
\* there or not
SubManagers ==
  {[CertIdle EXCEPT !.disk = [d \in AllCertHosts |->
                                IF d \in SubHosts THEN c ELSE NoCert],
                    !.wildcard = w] :
     c \in {NoCert, OnDisk, Expired}, w \in {NoCert, Wildcard}}

\* the manager after the constructor, the certs directory holding a
\* CA-signed certificate of the host that is due for renewal
RenewManagers ==
  {[CertIdle EXCEPT !.disk = [d \in AllCertHosts |->
                                IF d \in CertHosts THEN Renewable ELSE NoCert]]}

\* the calls whose obtainCertificate is running
InFlight(d) ==
  {k \in Slots : cm.calls[k].domain = d /\ cm.calls[k].pc \in {"obtain", "install"}}

\* ensureCertificate(domain, isDomainValidated) is called: it runs up to
\* await fs.readFile(certPath)
EnsureStart(k, d, validated) ==
  /\ cm.calls[k].pc = "idle"
  /\ cm' = [cm EXCEPT !.calls[k] =
              [IdleCall EXCEPT !.pc = "disk", !.domain = d,
                               !.validated = validated,
                               !.joined = InFlight(d)]]
  /\ UNCHANGED <<pureVars, storeVars, reqVars, challenges, peer, acct, clusterVars>>

\* the callback of getSNICallback for servername d: getMapping(domain, '/'),
\* then ensureCertificate(domain, domainMapping !== null) up to its first
\* await; a rejected lookup goes to the catch block: callback(error)
SNICallback(k, d) ==
  /\ cm.calls[k].pc = "idle"
  /\ \E m \in Query(d, <<"/">>) :
       cm' = [cm EXCEPT !.calls[k] =
                IF m = Rejected
                THEN [IdleCall EXCEPT !.pc = "failed", !.domain = d,
                                      !.sni = TRUE]
                ELSE [IdleCall EXCEPT !.pc = "disk", !.domain = d,
                                      !.sni = TRUE,
                                      !.validated = (m # Null),
                                      !.joined = InFlight(d)]]
  /\ UNCHANGED <<pureVars, storeVars, reqVars, challenges, peer, acct, clusterVars>>

\* the rate limiter without the five-minute window
Limiter_NoWindow(d) ==
  IF cm.count[d] >= MaxAttempts THEN "ceiling"
  ELSE IF d \in cm.processing THEN "wait"
  ELSE "issue"

\* the rate limiter without the ceiling
Limiter_NoCeiling(d) ==
  IF cm.now - cm.last[d] < FiveMinutes THEN "ratelimit"
  ELSE IF d \in cm.processing THEN "wait"
  ELSE "issue"

\* the rate limiter without the processingDomains test
Limiter_NoSingleFlight(d) ==
  IF cm.now - cm.last[d] < FiveMinutes THEN "ratelimit"
  ELSE IF cm.count[d] >= MaxAttempts THEN "ceiling"
  ELSE "issue"

\* the tests between "Rate limiting" and processingDomains.add: the window
\* since lastCertRequest (0 when the host has none), the ceiling of
\* certRequestCount, the processingDomains test
Limiter(d) ==
  IF cm.now - cm.last[d] < FiveMinutes THEN "ratelimit"
  ELSE IF cm.count[d] >= MaxAttempts THEN "ceiling"
  ELSE IF d \in cm.processing THEN "wait"
  ELSE "issue"

\* if (isSubdomain && isDomainValidated): a wildcard certificate of the main
\* domain is returned; without one this.db.getMapping(mainDomain, '/') is
\* awaited, and when it rejects so does ensureCertificate; "" when the code
\* goes on below the branch
SubdomainBranch(c) ==
  IF isSubdomain(c.domain) /\ c.validated
  THEN IF cm.wildcard # NoCert THEN "wildcard"
       ELSE IF Rejected \in Query(getMainDomain(c.domain), <<"/">>)
       THEN "reject"
       ELSE ""
  ELSE ""

\* ensureCertificate without the cache test of the catch block
Branch_NoCache(c) ==
  IF cm.disk[c.domain].kind = "real" THEN "disk"
  ELSE IF SubdomainBranch(c) # "" THEN SubdomainBranch(c)
  ELSE IF ~c.validated THEN "unvalidated"
  ELSE Limiter(c.domain)

\* the return statement the body of ensureCertificate reaches, or the await
\* it stops at: a valid CA-signed certificate on disk; else, only when the
\* read of the certs directory failed (the catch block), a cached entry;
\* else what the subdomain branch gives; else self-signed for a host that is
\* not validated; else the rate limiter
Branch(c) ==
  IF cm.disk[c.domain].kind = "real" THEN "disk"
  ELSE IF cm.disk[c.domain] = NoCert /\ cm.certificates[c.domain] # NoCert
  THEN "cache"
  ELSE IF SubdomainBranch(c) # "" THEN SubdomainBranch(c)
  ELSE IF ~c.validated THEN "unvalidated"
  ELSE Limiter(c.domain)

\* the body of ensureCertificate after the read of the certs directory, up
\* to its return or its next await; nothing else runs in between
EnsureBody(k) ==
  LET c == cm.calls[k]
      d == c.domain
      how == Branch(c)
      ran == [c EXCEPT !.how = how, !.at = cm.now, !.n0 = cm.attempts[d],
                       !.seen = {j \in Slots \ {k} : cm.calls[j].how # ""}]
      done(cert) == [ran EXCEPT !.pc = "done", !.result = cert]
  IN /\ c.pc = "disk"
     /\ cm' =
          IF how = "disk"
          THEN [cm EXCEPT !.certificates[d] = cm.disk[d],
                          !.calls[k] = done(cm.disk[d])]
          ELSE IF how = "cache"
          THEN [cm EXCEPT !.calls[k] = done(cm.certificates[d])]
          ELSE IF how = "wildcard"
          THEN [cm EXCEPT !.certificates[d] = cm.wildcard,
                          !.calls[k] = done(cm.wildcard)]
          ELSE IF how = "reject"
          THEN [cm EXCEPT !.calls[k] = [ran EXCEPT !.pc = "rejected"]]
          ELSE IF how \in {"unvalidated", "ratelimit", "ceiling"}
          THEN [cm EXCEPT !.calls[k] = done(SelfSigned(k))]
          ELSE IF how = "wait"
          THEN [cm EXCEPT !.calls[k] = [ran EXCEPT !.pc = "wait"]]
          ELSE [cm EXCEPT !.processing = @ \cup {d},
                          !.last[d] = cm.now,
                          !.count[d] = @ + 1,
                          !.attempts[d] = @ + 1,
                          !.calls[k] = [ran EXCEPT !.pc = "obtain"]]
     /\ UNCHANGED <<pureVars, storeVars, reqVars, challenges, peer, acct, clusterVars>>

\* obtainCertificate(domain): acmeClient.auto succeeds and the certificate
\* and key are written to the certs directory, or it fails (or the ACME
\* client is null) and a self-signed certificate is generated
ObtainCertificate(k) ==
  /\ cm.calls[k].pc = "obtain"
  /\ \E ok \in BOOLEAN :
       cm' = IF ok
             THEN [cm EXCEPT !.disk[cm.calls[k].domain] = Issued(k),
                             !.calls[k].pc = "install",
                             !.calls[k].result = Issued(k)]
             ELSE [cm EXCEPT !.calls[k].pc = "install",
                             !.calls[k].result = SelfSigned(k)]
  /\ UNCHANGED <<pureVars, storeVars, reqVars, challenges, peer, acct, clusterVars>>

\* this.certificates.set(domain, certificate); return certificate; and the
\* finally block: processingDomains.delete(domain)
EnsureInstall(k) ==
  /\ cm.calls[k].pc = "install"
  /\ cm' = [cm EXCEPT !.certificates[cm.calls[k].domain] = cm.calls[k].result,
                      !.processing = @ \ {cm.calls[k].domain},
                      !.calls[k].pc = "done"]
  /\ UNCHANGED <<pureVars, storeVars, reqVars, challenges, peer, acct, clusterVars>>

\* waitForCertificateProcessing returns, the host no longer processing or
\* 30 s gone; then return this.certificates.get(domain) || self-signed
EnsureWaitOver(k) ==
  LET d == cm.calls[k].domain
      cert == IF cm.certificates[d] # NoCert THEN cm.certificates[d]
              ELSE SelfSigned(k)
  IN /\ cm.calls[k].pc = "wait"
     /\ \E timeout \in BOOLEAN :
          /\ timeout \/ d \notin cm.processing
          /\ cm' = [cm EXCEPT !.calls[k].pc = "done", !.calls[k].result = cert]
     /\ UNCHANGED <<pureVars, storeVars, reqVars, challenges, peer, acct, clusterVars>>

\* the caller has its certificate (the SNI callback: callback(null, context),
\* or callback(error) after a rejected lookup); what other calls noted about
\* this one goes with it
EnsureReturn(k) ==
  /\ cm.calls[k].pc \in {"done", "failed", "rejected"}
  /\ cm' = [cm EXCEPT !.calls =
              [j \in Slots |->
                 IF j = k THEN IdleCall
                 ELSE [cm.calls[j] EXCEPT !.seen = @ \ {k}, !.joined = @ \ {k}]]]
  /\ UNCHANGED <<pureVars, storeVars, reqVars, challenges, peer, acct, clusterVars>>

\* five minutes pass
Tick ==
  /\ cm.now < MaxNow
  /\ cm' = [cm EXCEPT !.now = @ + 1]
  /\ UNCHANGED <<pureVars, storeVars, reqVars, challenges, peer, acct, clusterVars>>

-----------------------------------------------------------------------------
(* CertificateManager.initializeAcmeClient in the workers of one certs       *)
(* directory. A worker that exits is forked again by the master with the    *)
(* same WORKER_ID and runs initializeAcmeClient from the start.             *)

\* the workers started on the certs directory
NumWorkers == 2
AcmeWorkers == 0..(NumWorkers - 1)
\* worker exits while initializeAcmeClient runs
MaxKills == 1

\* .account-create.lock: absent, created by a running worker, or left behind
\* by a worker that is gone
NoLock == [state |-> "none", by |-> 0]
Held(w) == [state |-> "held", by |-> w]
StaleLock == [state |-> "stale", by |-> 0]

\* the certs directory without .account-registered and without a lock file;
\* registered: createAccount calls that succeeded; failed: those that threw;
\* writes: writeFile calls on .account-registered; polled: how the wait of
\* a worker without the lock ended. Account keys are numbered as they are
\* generated, 0 is none: key is this.accountKey of each worker, keyfile the
\* content of account-key.pem, regkey the key of the registered account
AcctIdle ==
  [pc |-> [w \in AcmeWorkers |-> "start"],
   client |-> [w \in AcmeWorkers |-> "none"],
   key |-> [w \in AcmeWorkers |-> 0],
   keyfile |-> 0, regkey |-> 0, keys |-> 0,
   polled |-> [w \in AcmeWorkers |-> ""],
   lock |-> NoLock, sentinel |-> FALSE,
   registered |-> 0, failed |-> 0, writes |-> 0, kills |-> 0]

\* fs.readFile(accountKeyPath): the key of the file, or the catch block when
\* there is no file
ReadAccountKey(w) ==
  /\ acct.pc[w] = "start"
  /\ acct' = IF acct.keyfile # 0
             THEN [acct EXCEPT !.key[w] = acct.keyfile, !.pc[w] = "access"]
             ELSE [acct EXCEPT !.pc[w] = "genkey"]
  /\ UNCHANGED <<pureVars, storeVars, reqVars, challenges, peer, cm, clusterVars>>

\* this.accountKey = await acme.forge.createPrivateKey(): a new key
CreateAccountKey(w) ==
  /\ acct.pc[w] = "genkey"
  /\ acct' = [acct EXCEPT !.keys = @ + 1, !.key[w] = acct.keys + 1,
                          !.pc[w] = "writekey"]
  /\ UNCHANGED <<pureVars, storeVars, reqVars, challenges, peer, cm, clusterVars>>

\* fs.writeFile(accountKeyPath, this.accountKey): the file is written over
WriteAccountKey(w) ==
  /\ acct.pc[w] = "writekey"
  /\ acct' = [acct EXCEPT !.keyfile = acct.key[w], !.pc[w] = "access"]
  /\ UNCHANGED <<pureVars, storeVars, reqVars, challenges, peer, cm, clusterVars>>

\* the client is built with this.accountKey, and
\* fs.access(accountRegisteredPath) tells whether to register
CheckSentinel(w) ==
  /\ acct.pc[w] = "access"
  /\ acct' = [acct EXCEPT !.client[w] = "client",
                          !.pc[w] = IF acct.sentinel THEN "done" ELSE "lock"]
  /\ UNCHANGED <<pureVars, storeVars, reqVars, challenges, peer, cm, clusterVars>>

\* acquireLock(lockPath, 5000): writeFile with flag wx creates the lock file
\* when there is none; while there is one the loop retries every 100 ms and
\* after 5 s returns false
acquireLock(w) ==
  /\ acct.pc[w] = "lock"
  /\ acct' = IF acct.lock = NoLock
             THEN [acct EXCEPT !.lock = Held(w), !.pc[w] = "check"]
             ELSE [acct EXCEPT !.pc[w] = "wait"]
  /\ UNCHANGED <<pureVars, storeVars, reqVars, challenges, peer, cm, clusterVars>>

\* with the lock: the second fs.access(accountRegisteredPath)
DoubleCheck(w) ==
  /\ acct.pc[w] = "check"
  /\ acct' = [acct EXCEPT !.pc[w] = IF acct.sentinel THEN "unlock" ELSE "create"]
  /\ UNCHANGED <<pureVars, storeVars, reqVars, challenges, peer, cm, clusterVars>>

\* acmeClient.createAccount(...): the account is registered, or the call
\* throws and the finally block and the outer catch follow
createAccount(w) ==
  /\ acct.pc[w] = "create"
  /\ \E ok \in BOOLEAN :
       acct' = IF ok
               THEN [acct EXCEPT !.registered = @ + 1,
                                 !.regkey = acct.key[w], !.pc[w] = "write"]
               ELSE [acct EXCEPT !.failed = @ + 1, !.client[w] = "null",
                                 !.pc[w] = "unlock"]
  /\ UNCHANGED <<pureVars, storeVars, reqVars, challenges, peer, cm, clusterVars>>

\* fs.writeFile(accountRegisteredPath, ...)
WriteSentinel(w) ==
  /\ acct.pc[w] = "write"
  /\ acct' = [acct EXCEPT !.sentinel = TRUE, !.writes = @ + 1,
                          !.pc[w] = "unlock"]
  /\ UNCHANGED <<pureVars, storeVars, reqVars, challenges, peer, cm, clusterVars>>

\* finally: fs.unlink(lockPath)
ReleaseLock(w) ==
  /\ acct.pc[w] = "unlock"
  /\ acct' = [acct EXCEPT !.lock = NoLock, !.pc[w] = "done"]
  /\ UNCHANGED <<pureVars, storeVars, reqVars, challenges, peer, cm, clusterVars>>

\* without the lock: up to 20 looks at .account-registered, 100 ms apart;
\* the worker goes on when it is there or when the 2 s are over, in both
\* cases with the client it has built
WaitForSentinel(w) ==
  /\ acct.pc[w] = "wait"
  /\ acct' = [acct EXCEPT !.pc[w] = "done",
                          !.polled[w] = IF acct.sentinel THEN "seen"
                                        ELSE "timeout"]
  /\ UNCHANGED <<pureVars, storeVars, reqVars, challenges, peer, cm, clusterVars>>

\* the worker process ends while initializeAcmeClient runs (a signal, the
\* host restarting); its finally block does not run, so a lock file it
\* created stays. The master's exit handler forks a worker in its place
WorkerKilled(w) ==
  /\ acct.pc[w] \notin {"start", "done"}
  /\ acct.kills < MaxKills
  /\ acct' = [acct EXCEPT !.kills = @ + 1,
                          !.lock = IF @ = Held(w) THEN StaleLock ELSE @,
                          !.client[w] = "none",
                          !.key[w] = 0,
                          !.pc[w] = "start"]
  /\ UNCHANGED <<pureVars, storeVars, reqVars, challenges, peer, cm, clusterVars>>

-----------------------------------------------------------------------------
(* The HTTP-01 challenges of this worker and of another worker on the same  *)
(* certs directory.                                                         *)

\* challenges.mem: this worker's challenges map; challenges.disk: the files
\* of the challenge directory, "" a file opened for writing and still
\* empty; challenges.op: for each token the worker whose ACME client
\* handles it and how far challengeCreateFn or challengeRemoveFn has come
NoOp == [by |-> "none", pc |-> "idle"]
NoChallenges ==
  [mem |-> [t \in Tokens |-> NoEntry],
   disk |-> [t \in Tokens |-> NoEntry],
   op |-> [t \in Tokens |-> NoOp]]
PeerIdle == [mem |-> [t \in Tokens |-> NoEntry]]

\* the map of worker w with token t set to v
SetMem(w, t, v) ==
  /\ challenges' = [challenges EXCEPT
                      !.mem[t] = IF w = "self" THEN v ELSE @,
                      !.op[t] = [by |-> w,
                                 pc |-> IF v = NoEntry THEN "unlink" ELSE "mkdir"]]
  /\ peer' = [peer EXCEPT !.mem[t] = IF w = "peer" THEN v ELSE @]

\* challengeCreateFn(authz, challenge, keyAuthorization) in worker w, up to
\* await fs.mkdir: this.challenges.set(token, keyAuthorization)
ChallengeCreateStart(w, t) ==
  /\ challenges.op[t] = NoOp
  /\ SetMem(w, t, KeyAuth(t))
  /\ UNCHANGED <<pureVars, storeVars, reqVars, cm, acct, clusterVars>>

\* fs.writeFile(challengeFile, keyAuthorization) opens the file: it exists
\* and is empty
ChallengeCreateOpen(t) ==
  /\ challenges.op[t].pc = "mkdir"
  /\ challenges' = [challenges EXCEPT !.disk[t] = "", !.op[t].pc = "write"]
  /\ UNCHANGED <<pureVars, storeVars, reqVars, peer, cm, acct, clusterVars>>

\* the data is written and challengeCreateFn returns
ChallengeCreateReturn(t) ==
  /\ challenges.op[t].pc = "write"
  /\ challenges' = [challenges EXCEPT !.disk[t] = KeyAuth(t),
                                      !.op[t].pc = "created"]
  /\ UNCHANGED <<pureVars, storeVars, reqVars, peer, cm, acct, clusterVars>>

\* challengeRemoveFn(authz, challenge, keyAuthorization) in the worker that
\* created the challenge, up to await fs.unlink: this.challenges.delete(token)
ChallengeRemoveStart(t) ==
  /\ challenges.op[t].pc = "created"
  /\ SetMem(challenges.op[t].by, t, NoEntry)
  /\ UNCHANGED <<pureVars, storeVars, reqVars, cm, acct, clusterVars>>

\* challengeRemoveFn that returns without the unlink
ChallengeRemoveUnlink_NoUnlink(t) ==
  /\ challenges.op[t].pc = "unlink"
  /\ challenges' = [challenges EXCEPT !.op[t].pc = "removed"]
  /\ UNCHANGED <<pureVars, storeVars, reqVars, peer, cm, acct, clusterVars>>

\* try { await fs.unlink(challengeFile) } catch: the file is removed, or
\* the unlink fails, the failure is logged and the file stays; then
\* challengeRemoveFn returns. A token is used for one challenge only
ChallengeRemoveUnlink(t) ==
  /\ challenges.op[t].pc = "unlink"
  /\ \E ok \in BOOLEAN :
       challenges' = IF ok
                     THEN [challenges EXCEPT !.disk[t] = NoEntry,
                                             !.op[t].pc = "removed"]
                     ELSE [challenges EXCEPT !.op[t].pc = "leftover"]
  /\ UNCHANGED <<pureVars, storeVars, reqVars, peer, cm, acct, clusterVars>>

\* the challenge requests of the ACME server's validation
ChallengeRequests ==
  [url : {AcmePrefix \o t : t \in Tokens \cup {<<"x">>}},
   host : {NoHost, Host(<<"a">>), Host(<<"c">>)},
   https : {FALSE}, upgrade : {FALSE}]

-----------------------------------------------------------------------------
(* The cluster master of index.js *)

\* os.cpus().length goes up to here
MaxCpus == 5
\* Math.min(numCPUs, 4)
MaxWorkers == 4
\* worker exits
MaxExits == 3

Min(a, b) == IF a < b THEN a ELSE b
\* the ids cluster.fork gives: one for each worker of the loop and one for
\* each worker forked after an exit
ClusterIds == 1..(MaxWorkers + MaxExits)

\* the master before its loop. workers: the worker processes, each with its
\* cluster id, the WORKER_ID in its environment and whether it runs (an
\* exited worker stays until its 'exit' event is handled); workerIds: the Map
\* from cluster id to WORKER_ID; nextId: the id cluster.fork gives next
Masters ==
  {[cpus |-> n, started |-> FALSE, workers |-> {}, workerIds |-> {},
    nextId |-> 1, exits |-> 0] : n \in 1..MaxCpus}
ClusterIdle == CHOOSE m \in Masters : m.cpus = 1

\* the worker count
NumForked(m) == Min(m.cpus, MaxWorkers)

\* the loop: cluster.fork({ WORKER_ID: i.toString() }) and
\* workerIds.set(worker.id, i) for i below Math.min(numCPUs, 4)
StartMaster ==
  /\ ~cluster.started
  /\ cluster' =
       [cluster EXCEPT
          !.started = TRUE,
          !.workers = {[id |-> i + 1, wid |-> i, live |-> TRUE] :
                         i \in 0..(NumForked(cluster) - 1)},
          !.workerIds = {<<i + 1, i>> : i \in 0..(NumForked(cluster) - 1)},
          !.nextId = NumForked(cluster) + 1]
  /\ UNCHANGED <<pureVars, storeVars, reqVars, certVars>>

\* a worker process ends: process.exit(1) after a failed start or an
\* uncaught exception, or a signal
WorkerExit(id) ==
  /\ cluster.started
  /\ cluster.exits < MaxExits
  /\ \E w \in cluster.workers :
       /\ w.id = id /\ w.live
       /\ cluster' = [cluster EXCEPT
                        !.workers = (@ \ {w}) \cup {[w EXCEPT !.live = FALSE]},
                        !.exits = @ + 1]
  /\ UNCHANGED <<pureVars, storeVars, reqVars, certVars>>

\* the lookup with the entry already deleted
WorkerIdOf_AfterDelete(id) == 0

\* workerIds.get(worker.id) || 0
WorkerIdOf(id) ==
  IF \E e \in cluster.workerIds : e[1] = id
  THEN (CHOOSE e \in cluster.workerIds : e[1] = id)[2]
  ELSE 0

\* cluster.on('exit', ...) for worker w: the WORKER_ID is looked up, the
\* entry deleted, a worker forked with that WORKER_ID and entered in the Map
HandleExit(id) ==
  /\ \E w \in cluster.workers :
       /\ w.id = id /\ ~w.live
       /\ LET workerId == WorkerIdOf(id)
          IN cluster' =
               [cluster EXCEPT
                  !.workers = (@ \ {w}) \cup
                              {[id |-> cluster.nextId, wid |-> workerId,
                                live |-> TRUE]},
                  !.workerIds = {e \in @ : e[1] # id} \cup
                                {<<cluster.nextId, workerId>>},
                  !.nextId = @ + 1]
  /\ UNCHANGED <<pureVars, storeVars, reqVars, certVars>>


-----------------------------------------------------------------------------
(* Specifications *)

\* the parts of the model a specification leaves alone
OthersIdle ==
  /\ peer = PeerIdle
  /\ cm = CertIdle
  /\ acct = AcctIdle
  /\ cluster = ClusterIdle

InitStore ==
  /\ file \in {DbFile(s) : s \in StoreContents}
  /\ conn = "none"
  /\ leaked = 0
  /\ hr = Idle
  /\ swaps = 0
  /\ cur = NoRequest
  /\ resp = NoResponse
  /\ challenges = NoChallenges
  /\ OthersIdle

\* the worker: its store, hot swaps and requests
Init ==
  /\ lk = NoLookup
  /\ rw = NoCall
  /\ InitStore

Next ==
  \/ Initialize
  \/ \E cand \in Candidates : HotReplaceStart(cand)
  \/ HotReplaceAccess
  \/ HotReplaceVerify
  \/ HotReplaceClose
  \/ HotReplaceCopy
  \/ HotReplaceConnect
  \/ HotReplaceWal
  \/ HotReplaceCatch
  \/ HotReplaceReturn
  \/ \E req \in Requests : ReceiveRequest(req)
  \/ HandleRequest
  \/ HandleWebSocket
  \/ EnsureCertificateReturns
  \/ UpstreamResponds
  \/ UpstreamFails
  \/ FinishRequest

Spec == Init /\ [][Next]_vars

\* buildTargetUrl on every mapping and request path within the bounds
InitRewrite ==
  /\ lk = NoLookup
  /\ rw \in [mapping : RewriteMappings, url : RewriteUrls, target : {<<>>},
             done : {FALSE}]
  /\ file = DbFile({})
  /\ conn = "none"
  /\ leaked = 0
  /\ hr = Idle
  /\ swaps = 0
  /\ cur = NoRequest
  /\ resp = NoResponse
  /\ challenges = NoChallenges
  /\ OthersIdle

NextRewrite == CallBuildTargetUrl

SpecRewrite == InitRewrite /\ [][NextRewrite]_vars

\* getMapping on every store, domain and request path within the bounds
InitLookup ==
  /\ lk \in [rows : LookupStores, domain : LookupDomains, url : LookupUrls,
             result : {Null}, done : {FALSE}]
  /\ rw = NoCall
  /\ file = DbFile({})
  /\ conn = "none"
  /\ leaked = 0
  /\ hr = Idle
  /\ swaps = 0
  /\ cur = NoRequest
  /\ resp = NoResponse
  /\ challenges = NoChallenges
  /\ OthersIdle

NextLookup == CallGetMapping

SpecLookup == InitLookup /\ [][NextLookup]_vars

-----------------------------------------------------------------------------
(* Claims *)

\* the routing key of a row and the request path that names it
Key(r) == <<r.domain, r.front_uri>>
Keys(rows) == {Key(r) : r \in rows}
KeyPath(r) == <<"/">> \o r.front_uri
\* the rows of x whose key y does not hold
OnlyIn(x, y) == {r \in x.rows : Key(r) \notin Keys(y.rows)}

\* the lookups the claims about the store are stated for
AllDomains == {<<"a">>, <<"b">>, <<"c">>}
ProbeUrls == RoutedUrls \cup {KeyPath(r) : r \in StoreRows}

\* a row matches a lookup as the claim words it: same domain, and the front_uri
\* empty or the request path beginning with '/' + front_uri
PrefixMatches(r, domain, requestUrl) ==
  /\ r.domain = domain
  /\ r.front_uri = <<>> \/ StartsWith(requestUrl, <<"/">> \o r.front_uri)

\* C1: getMapping returns a row of the requested domain whose front_uri is
\* empty or a prefix of the request path after its '/', one of the longest
\* such rows, and null exactly when the store holds no such row.
C1_LongestPrefixMatch ==
  lk.done =>
    LET fit == {r \in lk.rows : PrefixMatches(r, lk.domain, lk.url)}
    IN /\ (lk.result = Null) <=> (fit = {})
       /\ lk.result # Null =>
            /\ lk.result \in fit
            /\ \A q \in fit : Len(q.front_uri) <= Len(lk.result.front_uri)

InProgress == hr.pc \notin {"idle", "done", "failed"}

\* C3: at every point of a running hotReplaceDatabase (here the first call,
\* on an open store) a getMapping call completes, with the result it has on
\* the table before the swap or on the table after it.
C3_ReadersSeePreOrPost ==
  (InProgress /\ swaps = 1) =>
    \A d \in AllDomains, u \in ProbeUrls :
      \A m \in Query(d, u) :
        /\ m # Rejected
        /\ m \in getMapping(hr.pre.rows, d, u)
                 \cup getMapping((IF hr.cand.kind = "db" THEN hr.cand
                                  ELSE hr.pre).rows, d, u)

\* C4: after a failed hotReplaceDatabase (here the first call, and the
\* reconnect in the catch block having succeeded) every getMapping returns
\* what it returned before the call.
C4_FailedSwapKeepsStore ==
  (hr.pc = "failed" /\ swaps = 1 /\ conn = "open") =>
    \A d \in AllDomains, u \in ProbeUrls :
      Query(d, u) = getMapping(hr.pre.rows, d, u)

C6_ReplacesFrontByBack ==
  LET F == WithLeadingSlash(rw.mapping.front_uri)
      B == WithLeadingSlash(rw.mapping.back_uri)
      R == Substring(rw.url, Len(F))
  IN (/\ rw.done
      /\ rw.mapping.front_uri # <<>>
      /\ rw.mapping.back_uri # <<>>
      /\ StartsWith(rw.url, F)
      /\ ~Includes(B \o R, <<"/", "/">>))
     => rw.target = Origin(rw.mapping) \o B \o R

\* C7: the target path buildTargetUrl produces begins with '/' and holds
\* no '//'.
C7_NoDoubleSlash ==
  rw.done =>
    /\ StartsWith(TargetPath(rw.target), <<"/">>)
    /\ ~Includes(TargetPath(rw.target), <<"/", "/">>)

\* a call whose rewritten path held '//' and did not begin with '/'
C7_Witness ==
  /\ rw.done
  /\ Includes(RewritePath(rw.mapping, rw.url), <<"/", "/">>)
  /\ ~StartsWith(RewritePath(rw.mapping, rw.url), <<"/">>)

\* the query string of a path: what follows its first '?', with the '?'
QueryOf(path) ==
  IF Includes(path, <<"?">>) THEN Substring(path, IndexOf(path, <<"?">>)) ELSE <<>>

\* C8: the query string of a request path (one that begins with '/') is the
\* query string of the target path, unchanged.
C8_QueryPreserved ==
  (rw.done /\ StartsWith(rw.url, <<"/">>))
    => QueryOf(TargetPath(rw.target)) = QueryOf(rw.url)

\* the answer to a health check
IsHealthAnswer(r) ==
  /\ r.status = 200 /\ r.body = "OK" /\ r.ctype = "text/plain"
  /\ r.lookups = 0 /\ ~r.proxied /\ ~r.ensured

\* C9: in every state of the worker a request for '/health', with or without
\* Host, is answered 200 'OK' text/plain, with no lookup, no upstream, no
\* certificate request.
C9_HealthAlwaysOk ==
  /\ \A req \in Requests :
       req.url = HealthUrl => \A r \in handleRequest(req) : IsHealthAnswer(r)
  /\ (resp # NoResponse /\ cur.url = HealthUrl) => IsHealthAnswer(resp)

\* a health check without Host has been answered while the store is closed
C9_Witness ==
  /\ cur.url = HealthUrl
  /\ ~cur.host.present
  /\ resp.status = 200
  /\ conn = "closed"

\* neither a health check nor an ACME challenge
Routed(req) ==
  ~req.upgrade /\ req.url # HealthUrl /\ ~StartsWith(req.url, AcmePrefix)

\* C10: a routed request without Host gets 400 'Bad Request: Missing Host
\* header' with no lookup; one with a Host for which the lookup finds no
\* mapping gets 404 'Not Found'; neither reaches an upstream or asks for a
\* certificate.
C10_MissingHostAndNoMapping ==
  /\ (resp # NoResponse /\ Routed(cur)) =>
       /\ ~cur.host.present =>
            /\ resp.status = 400
            /\ resp.body = "Bad Request: Missing Host header"
            /\ resp.lookups = 0
            /\ ~resp.proxied /\ ~resp.ensured
       /\ (cur.host.present /\ resp.mapping = Null) =>
            /\ resp.status = 404 /\ resp.body = "Not Found"
            /\ ~resp.proxied /\ ~resp.ensured
  /\ \A req \in Requests :
       (/\ Routed(req) /\ req.host.present
        /\ conn = "open" /\ file.kind = "db"
        /\ MatchingRows(file.rows, SplitHost(req.host.value), req.url) = {})
       => \A r \in handleRequest(req) :
            r.status = 404 /\ r.body = "Not Found" /\ ~r.proxied /\ ~r.ensured

\* a TLS request for an unmapped host has been answered 404
C10_Witness ==
  /\ Routed(cur) /\ cur.host = Host(<<"c">>) /\ cur.https
  /\ resp.status = 404
  /\ file.rows # {}

C12_NoUncaughtException == ~resp.uncaught

\* ensureCertificate calls and TLS handshakes on one worker, the clock
\* running. The store stays as it is at the start: with a mapping of the
\* host or without one, its handle open or, a hot swap being between close
\* and reconnect, closed
InitCert ==
  /\ lk = NoLookup
  /\ rw = NoCall
  /\ file \in {DbFile({R1}), DbFile({R3})}
  /\ conn \in {"open", "closed"}
  /\ conn = "closed" => file = DbFile({R3})
  /\ leaked = 0
  /\ hr = Idle
  /\ swaps = 0
  /\ cur = NoRequest
  /\ resp = NoResponse
  /\ challenges = NoChallenges
  /\ peer = PeerIdle
  /\ cm \in CertManagers
  /\ acct = AcctIdle
  /\ cluster = ClusterIdle

NextCert ==
  \/ \E k \in Slots, d \in CertHosts, validated \in BOOLEAN :
       EnsureStart(k, d, validated)
  \/ \E k \in Slots, d \in CertHosts : SNICallback(k, d)
  \/ \E k \in Slots : EnsureBody(k)
  \/ \E k \in Slots : ObtainCertificate(k)
  \/ \E k \in Slots : EnsureInstall(k)
  \/ \E k \in Slots : EnsureWaitOver(k)
  \/ \E k \in Slots : EnsureReturn(k)
  \/ Tick

SpecCert == InitCert /\ [][NextCert]_vars

\* ensureCertificate calls and TLS handshakes on one worker whose certs
\* directory holds a CA-signed certificate of the host in its last 30 days;
\* the store open, its one mapping of the host with an empty front_uri or
\* with a front_uri
InitRenew ==
  /\ lk = NoLookup
  /\ rw = NoCall
  /\ file \in {DbFile({R1}), DbFile({R2}), DbFile({R4})}
  /\ conn = "open"
  /\ leaked = 0
  /\ hr = Idle
  /\ swaps = 0
  /\ cur = NoRequest
  /\ resp = NoResponse
  /\ challenges = NoChallenges
  /\ peer = PeerIdle
  /\ cm \in RenewManagers
  /\ acct = AcctIdle
  /\ cluster = ClusterIdle

SpecRenew == InitRenew /\ [][NextCert]_vars

\* ensureCertificate calls and TLS handshakes for a subdomain on one worker,
\* within one tick of the clock, where the five-minute window keeps a second
\* call from waiting for the first; the store open or closed
InitSub ==
  /\ lk = NoLookup
  /\ rw = NoCall
  /\ file \in {DbFile({R1}), DbFile({R3})}
  /\ conn \in {"open", "closed"}
  /\ leaked = 0
  /\ hr = Idle
  /\ swaps = 0
  /\ cur = NoRequest
  /\ resp = NoResponse
  /\ challenges = NoChallenges
  /\ peer = PeerIdle
  /\ cm \in SubManagers
  /\ acct = AcctIdle
  /\ cluster = ClusterIdle

NextSub ==
  \/ \E k \in Slots, d \in SubHosts, validated \in BOOLEAN :
       EnsureStart(k, d, validated)
  \/ \E k \in Slots, d \in SubHosts : SNICallback(k, d)
  \/ \E k \in Slots : EnsureBody(k)
  \/ \E k \in Slots : ObtainCertificate(k)
  \/ \E k \in Slots : EnsureInstall(k)
  \/ \E k \in Slots : EnsureReturn(k)

SpecSub == InitSub /\ [][NextSub]_vars

\* the workers of one certs directory in initializeAcmeClient
InitAcme ==
  /\ lk = NoLookup
  /\ rw = NoCall
  /\ file = DbFile({R1})
  /\ conn = "none"
  /\ leaked = 0
  /\ hr = Idle
  /\ swaps = 0
  /\ cur = NoRequest
  /\ resp = NoResponse
  /\ challenges = NoChallenges
  /\ peer = PeerIdle
  /\ cm = CertIdle
  /\ acct = AcctIdle
  /\ cluster = ClusterIdle

NextAcme ==
  \/ \E w \in AcmeWorkers : ReadAccountKey(w)
  \/ \E w \in AcmeWorkers : CreateAccountKey(w)
  \/ \E w \in AcmeWorkers : WriteAccountKey(w)
  \/ \E w \in AcmeWorkers : CheckSentinel(w)
  \/ \E w \in AcmeWorkers : acquireLock(w)
  \/ \E w \in AcmeWorkers : DoubleCheck(w)
  \/ \E w \in AcmeWorkers : createAccount(w)
  \/ \E w \in AcmeWorkers : WriteSentinel(w)
  \/ \E w \in AcmeWorkers : ReleaseLock(w)
  \/ \E w \in AcmeWorkers : WaitForSentinel(w)
  \/ \E w \in AcmeWorkers : WorkerKilled(w)

SpecAcme == InitAcme /\ [][NextAcme]_vars

\* the next step of worker w in initializeAcmeClient
AcmeStep(w) ==
  \/ ReadAccountKey(w)
  \/ CreateAccountKey(w)
  \/ WriteAccountKey(w)
  \/ CheckSentinel(w)
  \/ acquireLock(w)
  \/ DoubleCheck(w)
  \/ createAccount(w)
  \/ WriteSentinel(w)
  \/ ReleaseLock(w)
  \/ WaitForSentinel(w)

\* the same workers, each running on: a worker that lives takes its next step
\* (the event loop resumes every await whose promise settles, the timers of
\* acquireLock and of the polling loop fire, and the master forks a worker for
\* each one that ended). That a worker is killed is never required
FairAcme ==
  /\ InitAcme
  /\ [][NextAcme]_vars
  /\ \A w \in AcmeWorkers : WF_vars(AcmeStep(w))

\* a worker answering challenge requests while its own ACME client and
\* another worker's create and remove challenges
InitChallenge ==
  /\ lk = NoLookup
  /\ rw = NoCall
  /\ file = DbFile({R1})
  /\ conn = "open"
  /\ leaked = 0
  /\ hr = Idle
  /\ swaps = 0
  /\ cur = NoRequest
  /\ resp = NoResponse
  /\ challenges = NoChallenges
  /\ OthersIdle

NextChallenge ==
  \/ \E w \in {"self", "peer"}, t \in Tokens : ChallengeCreateStart(w, t)
  \/ \E t \in Tokens : ChallengeCreateOpen(t)
  \/ \E t \in Tokens : ChallengeCreateReturn(t)
  \/ \E t \in Tokens : ChallengeRemoveStart(t)
  \/ \E t \in Tokens : ChallengeRemoveUnlink(t)
  \/ \E req \in ChallengeRequests : ReceiveRequest(req)
  \/ HandleRequest
  \/ FinishRequest

SpecChallenge == InitChallenge /\ [][NextChallenge]_vars

\* the cluster master and its workers' exits
InitCluster ==
  /\ lk = NoLookup
  /\ rw = NoCall
  /\ file = DbFile({R1})
  /\ conn = "none"
  /\ leaked = 0
  /\ hr = Idle
  /\ swaps = 0
  /\ cur = NoRequest
  /\ resp = NoResponse
  /\ challenges = NoChallenges
  /\ peer = PeerIdle
  /\ cm = CertIdle
  /\ acct = AcctIdle
  /\ cluster \in Masters

NextCluster ==
  \/ StartMaster
  \/ \E id \in ClusterIds : WorkerExit(id)
  \/ \E id \in ClusterIds : HandleExit(id)

SpecCluster == InitCluster /\ [][NextCluster]_vars

\* C15: on one worker no two obtainCertificate executions for one host are in
\* flight at any time, and the host is in processingDomains exactly while
\* one is.
C15_SingleFlight ==
  \A d \in CertHosts :
    /\ Cardinality(InFlight(d)) <= 1
    /\ (InFlight(d) # {}) <=> (d \in cm.processing)

\* an issuance is in flight and a second call for the host got past the rate
\* limiter and waits for it
C15_Witness ==
  \E j, k \in Slots :
    /\ cm.calls[j].pc = "obtain"
    /\ cm.calls[k].pc = "wait"
    /\ cm.calls[k].domain = cm.calls[j].domain

\* C16: a call ensureCertificate(h, true) made while an issuance for h is in
\* flight returns the entry that issuance installs: the later caller and the
\* issuing caller have the same result.
C16_JoinersGetSameEntry ==
  \A j, k \in Slots :
    (/\ cm.calls[k].pc = "done" /\ cm.calls[k].validated
     /\ j \in cm.calls[k].joined
     /\ cm.calls[j].pc = "done")
    => cm.calls[k].result = cm.calls[j].result

\* two calls for one validated host whose bodies ran less than five minutes
\* apart, j before k, both finished
CloseCalls(j, k) ==
  /\ j # k
  /\ cm.calls[j].pc = "done" /\ cm.calls[k].pc = "done"
  /\ cm.calls[j].validated /\ cm.calls[k].validated
  /\ cm.calls[j].domain = cm.calls[k].domain
  /\ j \in cm.calls[k].seen
  /\ cm.calls[k].at - cm.calls[j].at < FiveMinutes

C18_AtMostFiveAttempts ==
  /\ \A d \in CertHosts : cm.attempts[d] <= MaxAttempts
  /\ \A k \in Slots :
       (/\ cm.calls[k].how \in {"ratelimit", "ceiling", "wait", "issue"}
        /\ cm.calls[k].n0 >= MaxAttempts)
       => /\ cm.calls[k].how \in {"ratelimit", "ceiling"}
          /\ cm.calls[k].pc = "done"
          /\ cm.calls[k].result = SelfSigned(k)

\* five attempts were made and a later call was stopped by the ceiling
C18_Witness ==
  \E k \in Slots :
    /\ cm.calls[k].how = "ceiling"
    /\ cm.attempts[cm.calls[k].domain] = MaxAttempts

\* the store has no mapping of the host
Unmapped(d) == getMapping(file.rows, d, <<"/">>) = {Null}

\* C13: a TLS handshake for a host without a mapping is completed with a
\* self-signed certificate and starts no issuance, whatever the cache, the
\* rate-limit counters and the processing set hold.
C13_UnmappedHostSelfSigned ==
  \A k \in Slots :
    (/\ cm.calls[k].sni
     /\ Unmapped(cm.calls[k].domain)
     /\ cm.calls[k].pc \in {"done", "failed"})
    => /\ cm.calls[k].pc = "done"
       /\ cm.calls[k].result.kind = "self"
       /\ cm.calls[k].how \notin {"issue", "wait"}

\* every worker has left initializeAcmeClient
AllInitialized == \A w \in AcmeWorkers : acct.pc[w] = "done"

\* C14: the workers that run initializeAcmeClient on a certs directory
\* without .account-registered register the account exactly once and write
\* .account-registered exactly once: never more than once, and once when all
\* of them are through. Stated for runs in which no createAccount call threw.
C14_RegisteredExactlyOnce ==
  /\ acct.registered <= 1
  /\ acct.writes <= 1
  /\ (AllInitialized /\ acct.failed = 0) =>
       (acct.registered = 1 /\ acct.writes = 1)

\* challengeCreateFn for token t has returned and challengeRemoveFn has not
\* been called
Published(t) == challenges.op[t].pc = "created"

\* C19: while the challenge of a token is published, getChallenge(token)
\* gives the keyAuthorization in the worker that created it and in every
\* other worker of the certs directory, and a challenge request handled then
\* is answered 200 with the keyAuthorization as body.
C19_ChallengeServedWhilePublished ==
  /\ [](\A t \in Tokens :
          Published(t) =>
            /\ getChallenge(challenges.mem, t) = KeyAuth(t)
            /\ getChallenge(peer.mem, t) = KeyAuth(t))
  /\ [][\A t \in Tokens :
          (/\ Published(t)
           /\ cur.url = AcmePrefix \o t
           /\ resp = NoResponse /\ resp' # NoResponse)
          => /\ resp'.status = 200
             /\ resp'.body = KeyAuth(t)
             /\ resp'.heads = 1]_vars

\* a challenge created by the other worker is published and this worker has
\* answered a request for it from the file
C19_Witness ==
  \E t \in Tokens :
    /\ Published(t)
    /\ challenges.op[t].by = "peer"
    /\ challenges.mem[t] = NoEntry
    /\ cur.url = AcmePrefix \o t
    /\ resp.status = 200
    /\ resp.body = KeyAuth(t)

\* the workers that run
Live == {w \in cluster.workers : w.live}
\* every exit has been handled
ExitsHandled == cluster.started /\ Live = cluster.workers

\* C20: once every exit is handled the master has exactly N = min(cpus, 4)
\* running workers whose WORKER_IDs are 0..N-1, each once; and the worker
\* forked for an exited one carries the exited worker's WORKER_ID.
C20_WorkerIdsKept ==
  /\ [](ExitsHandled =>
          /\ Cardinality(Live) = NumForked(cluster)
          /\ {w.wid : w \in Live} = 0..(NumForked(cluster) - 1)
          /\ cluster.workerIds = {<<w.id, w.wid>> : w \in Live})
  /\ [][cluster.started =>
          \A n \in cluster'.workers :
            (\A o \in cluster.workers : o.id # n.id) =>
              \E x \in cluster.workers \ cluster'.workers :
                ~x.live /\ x.wid = n.wid]_vars

\* three exits, among them that of a replacement, all handled, and a worker
\* with a WORKER_ID other than 0 is a replacement
C20_Witness ==
  /\ ExitsHandled
  /\ cluster.exits = MaxExits
  /\ NumForked(cluster) = MaxWorkers
  /\ \E w \in Live : w.id > MaxWorkers + 1 /\ w.wid # 0

\* what the upgrade handler must have done with a request it turns away
Turned(r) ==
  /\ r.destroyed
  /\ ~r.proxied /\ r.upstream = "none"
  /\ ~r.ensured /\ ~r.awaiting

\* C21: an upgrade request without Host, or with a Host for which the lookup
\* finds no mapping, has its socket destroyed; no upstream connection is
\* opened and ensureCertificate is not called.
C21_UpgradeTurnedAway ==
  /\ (/\ cur.upgrade /\ resp # NoResponse
      /\ (~cur.host.present \/ resp.mapping = Null))
     => Turned(resp)
  /\ \A req \in Requests :
       (/\ req.upgrade
        /\ \/ ~req.host.present
           \/ /\ conn = "open" /\ file.kind = "db"
              /\ MatchingRows(file.rows, SplitHost(req.host.value), req.url) = {})
       => \A r \in handleWebSocket(req) : Turned(r)

\* an upgrade request on a TLS connection for an unmapped host has been
\* turned away after the lookup
C21_Witness ==
  /\ cur.upgrade /\ cur.https
  /\ cur.host = Host(<<"c">>)
  /\ resp.destroyed
  /\ resp.lookups = 1 /\ resp.mapping = Null

\* what a handler decided for a request: the mapping, whether it forwards,
\* and the target and upstream path when it does
Route(r) ==
  [mapping |-> r.mapping,
   forwards |-> r.proxied \/ r.awaiting,
   port |-> r.mapping.back_port,
   target |-> r.target,
   path |-> IF r.proxied \/ r.awaiting THEN UpstreamPath(r) ELSE <<>>]

\* C22: for every Host and every URL that is neither the health check nor a
\* challenge, the upgrade handler chooses the mapping the request handler
\* chooses and forwards to the same port with the same rewritten path.
C22_UpgradeRoutesAsRequest ==
  \A req \in Requests :
    (Routed(req) /\ req.host.present) =>
      {Route(r) : r \in handleWebSocket([req EXCEPT !.upgrade = TRUE])}
        = {Route(r) : r \in handleRequest(req)}

\* an upgrade request has been forwarded by a mapping with front_uri and
\* back_uri, its path rewritten
C22_Witness ==
  /\ cur.upgrade
  /\ resp.proxied
  /\ resp.mapping = R2
  /\ cur.url = <<"/", "a", "/", "b">>
  /\ UpstreamPath(resp) = <<"/", "b", "/", "b">>

\* the upstream has answered and the exchange goes on: for an upgrade, the
\* WebSocket connection is open
Established == resp.proxied /\ resp.upstream = "responded"

C24_EnsureNeverRejects ==
  \A k \in Slots :
    /\ cm.calls[k].pc # "rejected"
    /\ cm.calls[k].pc = "done" => cm.calls[k].result # NoCert

\* a host name in small letters
LowerName(name) == [i \in 1..Len(name) |-> ToLower(name[i])]

\* the name a Host header stands for: in small letters, without the port
NormalHost(host) == LowerName(SplitHost(host))

\* C25: the host used for the routing lookup is the name of the Host header
\* in small letters and without its port, so two requests whose Host headers
\* differ only in letter case or in the port resolve to the same mapping:
\* whenever a handler has made its lookup, what it got is what the store
\* holds for the normalised name and the request path.
C25_LookupByNormalHost ==
  [][(/\ cur # NoRequest
      /\ cur.host.present
      /\ resp = NoResponse
      /\ resp' # NoResponse
      /\ resp'.lookups = 1)
     => resp'.mapping \in Query(NormalHost(cur.host.value), cur.url)]_vars

\* C26: when ensureCertificate(host) returns, the cache holds an entry for
\* host and it is the certificate returned, on every path: disk, cache,
\* wildcard, not authorized, rate-limited, issuance succeeded or failed.
C26_ReturnedIsCached ==
  [][\A k \in Slots :
       (cm.calls[k].pc # "done" /\ cm'.calls[k].pc = "done")
       => cm'.certificates[cm'.calls[k].domain] = cm'.calls[k].result]_vars

Removed(t) == challenges.op[t].pc \in {"removed", "leftover"}

C29_EnsureFireAndForget ==
  /\ ~resp.awaiting
  /\ (resp # NoResponse /\ cur.https /\ resp.lookups = 1
      /\ resp.mapping \notin {Null, Rejected})
     => resp.status # 500 /\ ~resp.destroyed
  /\ (resp # NoResponse /\ ~cur.https) => ~resp.ensured

\* C30: a worker that did not get .account-create.lock within the timeout
\* and did not see .account-registered during its 2 s of polling goes on
\* without an ACME client (acmeClient = null), so that every later issuance
\* in it is self-signed and it never contacts the ACME server.
C30_NoClientAfterTimeout ==
  \A w \in AcmeWorkers :
    (acct.pc[w] = "done" /\ acct.polled[w] = "timeout")
      => acct.client[w] = "null"

\* the step in which call k runs the body of ensureCertificate
BodyStep(k) == cm.calls[k].pc = "disk" /\ cm'.calls[k].pc # "disk"

\* C31: in ensureCertificate, whenever the certificate of the host on disk is
\* absent or invalid and the cache holds a valid entry for the host, that
\* entry is returned without any further step: no rate limiter, no issuance,
\* no new certificate.
C31_ValidCacheReturned ==
  [][\A k \in Slots :
       LET d == cm.calls[k].domain
       IN (/\ BodyStep(k)
           /\ cm.disk[d].kind # "real"
           /\ cm.certificates[d] # NoCert)
          => /\ cm'.calls[k].pc = "done"
             /\ cm'.calls[k].result = cm.certificates[d]
             /\ cm'.attempts = cm.attempts]_vars

\* C32: for a strict subdomain without a valid certificate of its own on
\* disk or in the cache, when a valid wildcard certificate of its main
\* domain is there, ensureCertificate installs it in the cache under the
\* host and returns it, with no ACME attempt, whether or not the host is
\* authorized.
C32_WildcardServed ==
  [][\A k \in Slots :
       LET d == cm.calls[k].domain
       IN (/\ BodyStep(k)
           /\ isSubdomain(d)
           /\ cm.disk[d].kind # "real"
           /\ cm.certificates[d] = NoCert
           /\ cm.wildcard # NoCert)
          => /\ cm'.calls[k].pc = "done"
             /\ cm'.calls[k].result = cm.wildcard
             /\ cm'.certificates[d] = cm.wildcard
             /\ cm'.attempts = cm.attempts]_vars

\* C33: the connection of the store goes only from none or closed to open
\* and from open to closed; a connection is opened only when none is open,
\* so no hotReplaceDatabase, successful or failed, opens a second connection
\* while the current one is open, and the store never holds more than one
\* open connection.
C33_OneConnection ==
  [][/\ conn' # conn => \/ conn # "open" /\ conn' = "open"
                        \/ conn = "open" /\ conn' = "closed"
     /\ leaked' = leaked]_vars

\* a hotReplaceDatabase has failed after it closed the connection (every
\* connect was made with no connection open) and its reopen of the original
\* path has failed too: the call is over and the store is closed
StorageUnavailable ==
  hr.pc \in {"failed", "idle"} /\ conn = "closed" /\ leaked = 0

\* C34: when hotReplaceDatabase fails after the connection was closed and
\* the reopen of the original path fails too, the failure is fatal to the
\* worker: the worker does not go on handling requests with a closed store.
C34_ClosedStoreIsFatal ==
  [][StorageUnavailable => ~(resp = NoResponse /\ resp' # NoResponse)]_vars

\* the step in which call k of ensureCertificate comes to its return
ReturnStep(k) == cm.calls[k].pc # "done" /\ cm'.calls[k].pc = "done"

\* C35: ensureCertificate never returns a self-signed certificate for a host
\* while a CA-signed certificate of the host that has not expired is on
\* disk, one in its last 30 days included: not when the renewal fails, is
\* rate-limited, or the host is not authorized.
C35_NoSelfSignedOverCaSigned ==
  [][\A k \in Slots :
       (ReturnStep(k) /\ cm'.calls[k].result.kind = "self")
       => cm'.disk[cm'.calls[k].domain].kind \notin {"real", "renewable"}]_vars

\* C36: when an ACME attempt for a host has failed and the host has no
\* certificate file, the self-signed certificate of the fallback is put in
\* the cache, and every later ensureCertificate(host, true) returns that
\* cached certificate and makes no ACME attempt, also when five minutes have
\* gone by and fewer than five attempts were made.
C36_FallbackServedFromCache ==
  [][\A k \in Slots :
       LET d == cm.calls[k].domain
       IN /\ (/\ cm.calls[k].pc = "install"
              /\ ReturnStep(k)
              /\ cm.calls[k].result.kind = "self")
             => cm'.certificates[d] = cm.calls[k].result
          /\ (/\ BodyStep(k)
              /\ cm.calls[k].validated
              /\ cm.disk[d] = NoCert
              /\ cm.certificates[d].kind = "self")
             => /\ cm'.calls[k].pc = "done"
                /\ cm'.calls[k].result = cm.certificates[d]
                /\ cm'.certificates = cm.certificates
                /\ cm'.attempts = cm.attempts
                /\ cm'.count = cm.count]_vars

\* an authorized call has returned the cached fallback although five
\* minutes had gone by since the one attempt and the ceiling was not reached
C36_Witness ==
  \E k \in Slots :
    LET c == cm.calls[k]
    IN /\ c.pc = "done" /\ c.how = "cache" /\ c.validated
       /\ c.result.kind = "self"
       /\ c.result = cm.certificates[c.domain]
       /\ cm.disk[c.domain] = NoCert
       /\ cm.attempts[c.domain] = 1
       /\ c.at - cm.last[c.domain] >= FiveMinutes

\* the step in which the SNI callback of call k has made its lookup and
\* calls ensureCertificate
SniStep(k) ==
  cm.calls[k].pc = "idle" /\ cm'.calls[k].pc = "disk" /\ cm'.calls[k].sni

\* C37: the SNI callback takes a host as authorized only when a mapping of
\* the host with an empty front_uri exists: for a host all of whose mappings
\* have a front_uri the lookup for '/' finds nothing, authorized is false,
\* and the handshake starts no ACME issuance for the host.
C37_SniNeedsEmptyFrontUri ==
  [][\A k \in Slots :
       /\ (/\ SniStep(k)
           /\ file.kind = "db"
           /\ \A r \in file.rows :
                r.domain = cm'.calls[k].domain => r.front_uri # <<>>)
          => ~cm'.calls[k].validated
       /\ (/\ BodyStep(k)
           /\ cm.calls[k].sni
           /\ file.kind = "db"
           /\ \A r \in file.rows :
                r.domain = cm.calls[k].domain => r.front_uri # <<>>)
          => cm'.attempts = cm.attempts]_vars

\* C38: after the workers have run initializeAcmeClient together on a certs
\* directory without account-key.pem, the account key each worker holds is
\* the key in account-key.pem and the key the account was registered with.
C38_OneAccountKey ==
  AllInitialized =>
    \A w \in AcmeWorkers :
      /\ acct.key[w] = acct.keyfile
      /\ acct.registered > 0 => acct.key[w] = acct.regkey

\* C39: when a worker ends while it holds .account-create.lock and before
\* .account-registered is written, the lock does not block registration for
\* ever: with every createAccount call answered by the ACME server, some
\* worker that runs afterwards gets the lock, registers the account and
\* writes .account-registered.
C39_StaleLockGivesWay ==
  (acct.lock = StaleLock /\ ~acct.sentinel)
    ~> (acct.sentinel \/ acct.failed > 0)

====
